---- MODULE Spec2Model ----
(***************************************************************************)
(* Model of the snowplow-rust-tracker core: the timestamp codec            *)
(* (src/src/timestamp.rs), the Payload, its derived builder and its        *)
(* serialization (src/src/payload.rs) and Tracker::track                   *)
(* (src/src/tracker.rs).                                                   *)
(*                                                                         *)
(* Conventions.  Option<T> is a sequence of length at most one: None is    *)
(* <<>> and Some(x) is <<x>>.  Text (a Rust String on the wire) is a       *)
(* sequence of one-character or one-word tokens.  A DateTime<Utc> is the   *)
(* number of clock ticks since the Unix epoch; one millisecond is          *)
(* TicksPerMilli ticks, so a DateTime can carry sub-millisecond precision. *)
(***************************************************************************)
EXTENDS Integers, Sequences, FiniteSets, TLC

VARIABLES
    tracker,    \* the Tracker's fields (namespace, app_id, config, subject)
    clock,      \* the system clock, in ticks since the Unix epoch
    nextId,     \* number of event ids Uuid::new_v4 has handed out
    calls,      \* the track calls: one record per call slot
    builder,    \* a PayloadBuilder under construction (builder specification)
    built,      \* Option<Result<Payload, Error>>: what build() returned
    wire,       \* Option<JSON object>: the serialized Payload
    bpc,        \* position of the builder run: "building", "built", "serialized"
    ts,         \* Option<DateTime>: the value given to the timestamp codec
    tsOptional, \* TRUE when the optional codec is in use
    encoded,    \* Option<wire value>: what serialize produced
    decoded,    \* Option<Result<Option<DateTime>>>: what deserialize produced
    cpc         \* position of the codec run: "idle", "chosen", "encoded", "decoded"

vars == <<tracker, clock, nextId, calls, builder, built, wire, bpc,
          ts, tsOptional, encoded, decoded, cpc>>

trackerVars == <<tracker, clock, nextId, calls>>
builderVars == <<builder, built, wire, bpc>>
codecVars == <<ts, tsOptional, encoded, decoded, cpc>>

-----------------------------------------------------------------------------
(* Bounds of the model *)

\* clock ticks per millisecond (the clock is finer than the wire format)
TicksPerMilli == 2
\* the clock stops advancing at this tick
MaxClock == 2
\* number of event ids generated in one behaviour
MaxIds == 2
\* longest context sequence a caller passes to track
MaxContextLen == 2
\* the codec is exercised on DateTimes within this many ticks of the epoch
MaxTicks == 60

-----------------------------------------------------------------------------
(* Option and Result *)

None == <<>>
Some(x) == <<x>>
IsSome(o) == o /= <<>>
Unwrap(o) == o[1]

Ok(x) == [ok |-> TRUE, val |-> <<x>>, err |-> <<>>]
Err(e) == [ok |-> FALSE, val |-> <<>>, err |-> <<e>>]

-----------------------------------------------------------------------------
(* Text: decimal rendering and parsing of integers *)

Digits == <<"0", "1", "2", "3", "4", "5", "6", "7", "8", "9">>

DigitChar(d) == Digits[d + 1]

IsDigit(c) == \E d \in 0..9 : Digits[d + 1] = c

DigitVal(c) == CHOOSE d \in 0..9 : Digits[d + 1] = c

RECURSIVE NatToString(_)
NatToString(n) ==
    IF n < 10 THEN <<DigitChar(n)>>
    ELSE NatToString(n \div 10) \o <<DigitChar(n % 10)>>

\* to_string without the sign
to_string_unsigned(n) == IF n < 0 THEN NatToString(-n) ELSE NatToString(n)

\* i64::to_string: a minus sign for negatives, no sign otherwise
to_string(n) == IF n < 0 THEN <<"-">> \o NatToString(-n) ELSE NatToString(n)

RECURSIVE DigitsValue(_)
DigitsValue(s) ==
    IF Len(s) = 0 THEN 0
    ELSE 10 * DigitsValue(SubSeq(s, 1, Len(s) - 1)) + DigitVal(s[Len(s)])

\* str::parse::<i64>: an optional sign followed by at least one digit and
\* nothing else.  (The values of the model are far from the i64 limits, so
\* the overflow error of the parser is out of reach.)
ParseI64(s) ==
    LET signed == Len(s) > 0 /\ s[1] \in {"-", "+"}
        body == IF signed THEN SubSeq(s, 2, Len(s)) ELSE s
    IN  IF Len(body) = 0 \/ \E i \in 1..Len(body) : ~IsDigit(body[i])
        THEN None
        ELSE Some(IF signed /\ s[1] = "-" THEN -DigitsValue(body)
                  ELSE DigitsValue(body))

-----------------------------------------------------------------------------
(* JSON values on the wire *)

JsonString(text) == [t |-> "string", v |-> text]
JsonNull == [t |-> "null", v |-> <<>>]

-----------------------------------------------------------------------------
(* Timestamp codec, src/src/timestamp.rs *)

\* DateTime::timestamp_millis: whole milliseconds since the epoch, rounded
\* towards the past
timestamp_millis(dt) == dt \div TicksPerMilli

\* DateTime::from_timestamp_millis (every value of the model is within
\* chrono's representable range, so the result is always Some)
from_timestamp_millis(ms) == Some(ms * TicksPerMilli)

\* ts_milliseconds_string::serialize
ts_serialize(dt) == JsonString(to_string(timestamp_millis(dt)))

\* TsMillisecondsStringVisitor::visit_str
visit_str(value) ==
    LET n == ParseI64(value)
    IN  IF IsSome(n) /\ IsSome(from_timestamp_millis(Unwrap(n)))
        THEN Ok(Unwrap(from_timestamp_millis(Unwrap(n))))
        ELSE Err([kind |-> "invalid_value", detail |-> value])

\* ts_milliseconds_string::deserialize: only a JSON string is accepted
ts_deserialize(w) ==
    IF w.t = "string" THEN visit_str(w.v)
    ELSE Err([kind |-> "invalid_type", detail |-> <<w.t>>])

\* ts_milliseconds_string_option::serialize
ts_option_serialize(opt) ==
    IF IsSome(opt) THEN JsonString(to_string(timestamp_millis(Unwrap(opt))))
    ELSE JsonNull

\* ts_milliseconds_string_option::deserialize (visit_none / visit_unit for
\* null, visit_some otherwise)
ts_option_deserialize(w) ==
    IF w.t = "null" THEN Ok(None)
    ELSE LET r == ts_deserialize(w)
         IN  IF r.ok THEN Ok(Some(Unwrap(r.val))) ELSE r

-----------------------------------------------------------------------------
(* JSON text: serde_json's Value, its rendering to text and its parsing *)

JsonObject(members) == [t |-> "object", v |-> members]
JsonArray(elements) == [t |-> "array", v |-> elements]
Member(key, value) == [k |-> key, v |-> value]

\* the keys of a JSON object
Keys(obj) == {obj.v[i].k : i \in DOMAIN obj.v}

\* the value of a JSON object under a key it holds
Get(obj, key) == obj.v[CHOOSE i \in DOMAIN obj.v : obj.v[i].k = key].v

\* serde_json::Map keeps its keys sorted (a BTreeMap) unless the crate is
\* built with the preserve_order feature, which keeps insertion order.
\* The model's maps hold the keys "schema" and "data" only.
MapOrder(members, preserve_order) ==
    IF preserve_order \/ Len(members) < 2 THEN members
    ELSE IF members[1].k = <<"data">> THEN members
    ELSE <<members[2], members[1]>>

RECURSIVE Render(_)
RECURSIVE RenderList(_, _)
\* Value::to_string: compact JSON text (the strings of the model hold no
\* character that needs escaping)
Render(value) ==
    CASE value.t = "string" -> <<"\"">> \o value.v \o <<"\"">>
      [] value.t = "null" -> <<"null">>
      [] value.t = "array" -> <<"[">> \o RenderList(value.v, FALSE) \o <<"]">>
      [] value.t = "object" -> <<"{">> \o RenderList(value.v, TRUE) \o <<"}">>

RenderList(items, keyed) ==
    IF Len(items) = 0 THEN <<>>
    ELSE LET one == IF keyed
                    THEN <<"\"">> \o items[1].k \o <<"\"", ":">> \o Render(items[1].v)
                    ELSE Render(items[1])
         IN  IF Len(items) = 1 THEN one
             ELSE one \o <<",">> \o RenderList(Tail(items), keyed)

Failed == [ok |-> FALSE, val |-> JsonNull, next |-> 0]
Parsed(value, next) == [ok |-> TRUE, val |-> value, next |-> next]

\* the index of the first quote token at or after i, or 0
RECURSIVE ClosingQuote(_, _)
ClosingQuote(toks, i) ==
    IF i > Len(toks) THEN 0
    ELSE IF toks[i] = "\"" THEN i
    ELSE ClosingQuote(toks, i + 1)

\* a quoted string starting at i
ParseString(toks, i) ==
    IF i > Len(toks) \/ toks[i] /= "\"" THEN Failed
    ELSE LET j == ClosingQuote(toks, i + 1)
         IN  IF j = 0 THEN Failed
             ELSE Parsed(JsonString(SubSeq(toks, i + 1, j - 1)), j + 1)

RECURSIVE ParseValue(_, _)
RECURSIVE ParseElements(_, _, _)
RECURSIVE ParseMembers(_, _, _)
\* serde_json::from_str on the text, from token i
ParseValue(toks, i) ==
    IF i > Len(toks) THEN Failed
    ELSE CASE toks[i] = "\"" -> ParseString(toks, i)
           [] toks[i] = "null" -> Parsed(JsonNull, i + 1)
           [] toks[i] = "[" ->
                IF i < Len(toks) /\ toks[i + 1] = "]"
                THEN Parsed(JsonArray(<<>>), i + 2)
                ELSE ParseElements(toks, i + 1, <<>>)
           [] toks[i] = "{" ->
                IF i < Len(toks) /\ toks[i + 1] = "}"
                THEN Parsed(JsonObject(<<>>), i + 2)
                ELSE ParseMembers(toks, i + 1, <<>>)
           [] OTHER -> Failed

ParseElements(toks, i, acc) ==
    LET e == ParseValue(toks, i)
    IN  IF ~e.ok \/ e.next > Len(toks) THEN Failed
        ELSE CASE toks[e.next] = "," ->
                    ParseElements(toks, e.next + 1, Append(acc, e.val))
               [] toks[e.next] = "]" ->
                    Parsed(JsonArray(Append(acc, e.val)), e.next + 1)
               [] OTHER -> Failed

ParseMembers(toks, i, acc) ==
    LET key == ParseString(toks, i)
    IN  IF ~key.ok \/ key.next > Len(toks) \/ toks[key.next] /= ":" THEN Failed
        ELSE LET e == ParseValue(toks, key.next + 1)
                 all == Append(acc, Member(key.val.v, e.val))
             IN  IF ~e.ok \/ e.next > Len(toks) THEN Failed
                 ELSE CASE toks[e.next] = "," -> ParseMembers(toks, e.next + 1, all)
                        [] toks[e.next] = "}" -> Parsed(JsonObject(all), e.next + 1)
                        [] OTHER -> Failed

\* the whole text is one JSON value
ParseJson(toks) ==
    LET r == ParseValue(toks, 1)
    IN  IF r.ok /\ r.next = Len(toks) + 1 THEN r ELSE Failed

-----------------------------------------------------------------------------
(* Envelopes, src/src/payload.rs *)

UnstructEventSchema == <<"iglu:com.snowplowanalytics.snowplow/unstruct_event/jsonschema/1-0-0">>
ContextsSchema == <<"iglu:com.snowplowanalytics.snowplow/contexts/jsonschema/1-0-1">>

\* SelfDescribingJson::new
SelfDescribingJson_new(schema, data) == [schema |-> schema, data |-> data]

\* SelfDescribingEventData::new
SelfDescribingEventData_new(data) == [schema |-> UnstructEventSchema, data |-> data]

\* ContextData::new
ContextData_new(data) == [schema |-> ContextsSchema, data |-> data]

\* the derived Serialize of SelfDescribingJson into a serde_json::Value
SelfDescribingJson_value(j, preserve_order) ==
    JsonObject(MapOrder(<<Member(<<"schema">>, JsonString(j.schema)),
                          Member(<<"data">>, j.data)>>, preserve_order))

\* impl Serialize for SelfDescribingEventData: the text of
\* json!({schema, data}) as one string
SelfDescribingEventData_serialize(d, preserve_order) ==
    JsonString(Render(JsonObject(MapOrder(
        <<Member(<<"schema">>, JsonString(d.schema)),
          Member(<<"data">>, SelfDescribingJson_value(d.data, preserve_order))>>,
        preserve_order))))

\* ContextData serialized as a nested object instead of a string
ContextData_serialize_nested(c, preserve_order) ==
    JsonObject(MapOrder(
        <<Member(<<"schema">>, JsonString(c.schema)),
          Member(<<"data">>,
                 JsonArray([i \in DOMAIN c.data |->
                               SelfDescribingJson_value(c.data[i], preserve_order)]))>>,
        preserve_order))

\* impl Serialize for ContextData: the text of json!({schema, data}) as one
\* string
ContextData_serialize(c, preserve_order) ==
    JsonString(Render(JsonObject(MapOrder(
        <<Member(<<"schema">>, JsonString(c.schema)),
          Member(<<"data">>,
                 JsonArray([i \in DOMAIN c.data |->
                               SelfDescribingJson_value(c.data[i], preserve_order)]))>>,
        preserve_order))))

-----------------------------------------------------------------------------
(* Subject and StructuredEvent: their files are not part of the sources;   *)
(* the attributes are the ones src/src/tracker.rs uses.                    *)

AttrOrder == <<"user_id", "ip_address">>
Attrs == {AttrOrder[i] : i \in DOMAIN AttrOrder}

AttrValues(a) ==
    IF a = "user_id" THEN {<<"user_1">>, <<"user_2">>} ELSE {<<"999.999.999.999">>}

\* Subject::default
Subject_default == [a \in Attrs |-> None]

Subjects == {s \in [Attrs -> UNION {{None} \cup {Some(v) : v \in AttrValues(a)} : a \in Attrs}] :
                \A a \in Attrs : s[a] = None \/ Unwrap(s[a]) \in AttrValues(a)}

\* Subject::merge(self, fallback)
merge(primary, fallback) ==
    [a \in Attrs |-> IF IsSome(primary[a]) THEN primary[a] ELSE fallback[a]]

RECURSIVE SubjectMembers(_, _)
\* the flattened fields of a Subject: unset attributes are skipped
SubjectMembers(s, i) ==
    IF i > Len(AttrOrder) THEN <<>>
    ELSE (IF IsSome(s[AttrOrder[i]])
          THEN <<Member(<<AttrOrder[i]>>, JsonString(Unwrap(s[AttrOrder[i]])))>>
          ELSE <<>>) \o SubjectMembers(s, i + 1)

\* a structured event's own fields
StructuredEvent1 == [se_ca |-> <<"shop">>, se_ac |-> <<"add-to-basket">>]

\* the flattened fields of a StructuredEvent
StructuredEventMembers(se) ==
    <<Member(<<"se_ca">>, JsonString(se.se_ca)),
      Member(<<"se_ac">>, JsonString(se.se_ac))>>

-----------------------------------------------------------------------------
(* Payload and PayloadBuilder, src/src/payload.rs *)

\* the fields of Payload in declaration order
FieldOrder == <<"p", "tv", "eid", "dtm", "stm", "ttm", "e", "aid", "ue_pr",
                "co", "structured_event", "subject">>
Fields == {FieldOrder[i] : i \in DOMAIN FieldOrder}

\* the fields without #[builder(default)]
Required == {"p", "tv", "eid", "dtm", "stm", "aid"}

\* Payload::builder(): PayloadBuilder::default(), no field set
Payload_builder == [f \in Fields |-> None]

\* a generated setter (pattern = "owned", strip_option)
Set(b, f, v) == [b EXCEPT ![f] = Some(v)]

\* the position in FieldOrder of the first required field left unset, or 0
FirstMissing(b) ==
    IF \A f \in Required : IsSome(b[f]) THEN 0
    ELSE CHOOSE i \in DOMAIN FieldOrder :
            /\ FieldOrder[i] \in Required /\ b[FieldOrder[i]] = None
            /\ \A j \in 1..(i - 1) :
                  FieldOrder[j] \in Required => IsSome(b[FieldOrder[j]])

\* build() as it would be with #[builder(default)] on aid as well
build_default_aid(b) ==
    IF \E f \in Required \ {"aid"} : b[f] = None
    THEN Err([kind |-> "UninitializedField",
              detail |-> <<CHOOSE f \in Required \ {"aid"} : b[f] = None>>])
    ELSE Ok([f \in Fields |->
                IF f = "aid" THEN (IF IsSome(b[f]) THEN Unwrap(b[f]) ELSE <<>>)
                ELSE IF f \in Required THEN Unwrap(b[f]) ELSE b[f]])

\* the generated PayloadBuilder::build: the first unset required field is
\* reported as an UninitializedFieldError turned into the crate's Error; a
\* field with a default takes None when unset
build(b) ==
    IF FirstMissing(b) /= 0
    THEN Err([kind |-> "UninitializedField", detail |-> <<FieldOrder[FirstMissing(b)]>>])
    ELSE Ok([f \in Fields |-> IF f \in Required THEN Unwrap(b[f]) ELSE b[f]])

\* finalise_payload that builds without stamping stm
finalise_payload_unstamped(b, now) == build(b)

\* PayloadBuilder::finalise_payload, with Utc::now() read as `now`
finalise_payload(b, now) == build(Set(b, "stm", now))

\* Uuid as hyphenated text
UuidText(id) == <<"uuid-">> \o NatToString(id)

\* serde names of EventType
EventTypeName(e) == IF e = "StructuredEvent" THEN <<"se">> ELSE <<"ue">>

\* the fields a serde attribute lets the serializer skip when they are None
SkipIfNone == {"ttm", "ue_pr", "co", "structured_event", "subject"}

\* the members one field of the Payload contributes to the serialized map
FieldMembers(pl, f, preserve_order) ==
    IF f \in SkipIfNone /\ pl[f] = None THEN <<>>
    ELSE CASE f \in {"p", "tv", "aid"} -> <<Member(<<f>>, JsonString(pl[f]))>>
           [] f = "eid" -> <<Member(<<f>>, JsonString(UuidText(pl[f])))>>
           [] f \in {"dtm", "stm"} -> <<Member(<<f>>, ts_serialize(pl[f]))>>
           [] f = "ttm" -> <<Member(<<f>>, ts_option_serialize(pl[f]))>>
           [] f = "e" ->
                <<Member(<<f>>, IF IsSome(pl[f])
                                THEN JsonString(EventTypeName(Unwrap(pl[f])))
                                ELSE JsonNull)>>
           [] f = "ue_pr" ->
                <<Member(<<f>>, SelfDescribingEventData_serialize(Unwrap(pl[f]),
                                                                  preserve_order))>>
           [] f = "co" ->
                <<Member(<<f>>, ContextData_serialize(Unwrap(pl[f]), preserve_order))>>
           [] f = "structured_event" -> StructuredEventMembers(Unwrap(pl[f]))
           [] f = "subject" -> SubjectMembers(Unwrap(pl[f]), 1)

RECURSIVE PayloadMembers(_, _, _)
PayloadMembers(pl, i, preserve_order) ==
    IF i > Len(FieldOrder) THEN <<>>
    ELSE FieldMembers(pl, FieldOrder[i], preserve_order)
            \o PayloadMembers(pl, i + 1, preserve_order)

\* the derived Serialize of Payload: one flat map, fields in declaration order
Payload_serialize(pl, preserve_order) ==
    JsonObject(PayloadMembers(pl, 1, preserve_order))

-----------------------------------------------------------------------------
(* Events and contexts given to track.  An event offers an optional Subject *)
(* and a finalizer (EventBuildable, not part of the sources).               *)

Kinds == {"StructuredEvent", "SelfDescribingEvent"}

OptSubjects == {None} \cup {Some(s) : s \in Subjects}

\* ok = FALSE: an event whose own data is incomplete, so its finalizer fails
Events == [subject : OptSubjects, kind : Kinds, ok : BOOLEAN]

Json1 == SelfDescribingJson_new(<<"s1">>, JsonObject(<<>>))
Json2 == SelfDescribingJson_new(<<"s2">>, JsonString(<<"x">>))
Entries == {Json1, Json2}

SeqsUpTo(S, n) == UNION {[1..k -> S] : k \in 0..n}

\* Option<Vec<SelfDescribingJson>>
Contexts == {None} \cup {Some(v) : v \in SeqsUpTo(Entries, MaxContextLen)}

\* EventBuildable::subject
Event_subject(event) == event.subject

\* EventBuildable::build_payload: fills the fields of the event's kind and
\* ends with finalise_payload
build_payload(event, b, now) ==
    IF ~event.ok
    THEN Err([kind |-> "BuilderError", detail |-> <<"event field missing">>])
    ELSE IF event.kind = "StructuredEvent"
    THEN finalise_payload(
            Set(Set(b, "e", "StructuredEvent"), "structured_event", StructuredEvent1),
            now)
    ELSE finalise_payload(
            Set(Set(b, "e", "SelfDescribingEvent"), "ue_pr",
                SelfDescribingEventData_new(Json1)),
            now)

\* the errors the Emitter's add can report
EmitterErrors == {[kind |-> "EmitterError", detail |-> <<"queue full">>],
                  [kind |-> "EmitterError", detail |-> <<"emitter stopped">>]}

-----------------------------------------------------------------------------
(* Tracker, src/src/tracker.rs *)

\* Tracker::new
Tracker_new(namespace, app_id, subject) ==
    [namespace |-> namespace,
     app_id |-> app_id,
     subject |-> IF IsSome(subject) THEN Unwrap(subject) ELSE Subject_default,
     config |-> [platform |-> <<"pc">>, version |-> <<"rust-0.1.0">>,
                 encode_base_64 |-> FALSE]]

\* a call slot with no track call in it
IdleCall ==
    [pc |-> "idle", event |-> None, context |-> None, now |-> None,
     event_id |-> None, added |-> <<>>, add_result |-> None, result |-> None]

\* the system clock at the start of the program: at the epoch, or set one
\* tick before it
ClockStart == {-1, 0}

\* SystemTime::now().duration_since(UNIX_EPOCH), as milliseconds: an error
\* when the clock is before the epoch
since_the_epoch(time) ==
    IF time < 0
    THEN Err([kind |-> "BuilderError", detail |-> <<"Failed to get current time">>])
    ELSE Ok(time \div TicksPerMilli)

\* a builder seeded with an id generated anew instead of event_id
SeedBuilder_regenerated(t, event_id, millis) ==
    LET at == Unwrap(from_timestamp_millis(millis))
    IN  Set(Set(Set(Set(Set(Set(Payload_builder,
            "p", t.config.platform),
            "tv", t.config.version),
            "eid", event_id + 1),
            "dtm", at),
            "stm", at),
            "aid", t.app_id)

\* the builder track seeds: dtm and stm are both the captured millisecond
\* (track passes as_millis().to_string(); the Payload field is the DateTime
\* of that millisecond)
SeedBuilder(t, event_id, millis) ==
    LET at == Unwrap(from_timestamp_millis(millis))
    IN  Set(Set(Set(Set(Set(Set(Payload_builder,
            "p", t.config.platform),
            "tv", t.config.version),
            "eid", event_id),
            "dtm", at),
            "stm", at),
            "aid", t.app_id)

\* the context taken from a builder shared with a call already in flight
AttachContext_shared(b, context) ==
    LET inflight == {d \in DOMAIN calls : calls[d].pc = "awaiting"}
        used == IF inflight = {} THEN context
                ELSE calls[CHOOSE d \in inflight : TRUE].context
    IN  IF IsSome(used) THEN Set(b, "co", ContextData_new(Unwrap(used))) ELSE b

\* if let Some(context) = context { builder.co(ContextData::new(context)) }
AttachContext(b, context) ==
    IF IsSome(context) THEN Set(b, "co", ContextData_new(Unwrap(context))) ELSE b

\* the merge with the Tracker's Subject given priority
AttachSubject_tracker_first(b, event, t) ==
    IF IsSome(Event_subject(event))
    THEN Set(b, "subject", merge(t.subject, Unwrap(Event_subject(event))))
    ELSE b

\* if let Some(event_subject) = event.subject() { builder.subject(merged) }
AttachSubject(b, event, t) ==
    IF IsSome(Event_subject(event))
    THEN Set(b, "subject", merge(Unwrap(Event_subject(event)), t.subject))
    ELSE b

\* the payloads a call hands to Emitter::add, given the finalizer's result
Handed(built_payload) ==
    IF built_payload.ok THEN <<Unwrap(built_payload.val)>> ELSE <<>>

\* the emitter's error swallowed: the id is returned whatever add says
TrackResult_swallowed(add_result, event_id) == Ok(event_id)

\* self.emitter.add(payload).await.map(|_| event_id)
TrackResult(add_result, event_id) ==
    IF add_result.ok THEN Ok(event_id) ELSE add_result

\* track, from its start to the await of Emitter::add (or to its early
\* return).  `late` is the clock when the finalizer stamps stm.
Track(c, event, context, late) ==
    /\ calls[c].pc = "idle"
    /\ nextId < MaxIds
    /\ late >= clock
    /\ LET time == since_the_epoch(clock)
       IN  IF ~time.ok
           THEN /\ calls' = [calls EXCEPT ![c] =
                        [IdleCall EXCEPT !.pc = "done", !.event = Some(event),
                                         !.context = context,
                                         !.result = Some(time)]]
                /\ UNCHANGED <<clock, nextId>>
           ELSE LET event_id == nextId
                    b == AttachSubject(
                            AttachContext(
                                SeedBuilder(tracker, event_id, Unwrap(time.val)),
                                context),
                            event, tracker)
                    payload == build_payload(event, b, late)
                IN  /\ calls' = [calls EXCEPT ![c] =
                            [pc |-> IF payload.ok THEN "awaiting" ELSE "done",
                             event |-> Some(event),
                             context |-> context,
                             now |-> time.val,
                             event_id |-> Some(event_id),
                             added |-> Handed(payload),
                             add_result |-> None,
                             result |-> IF payload.ok THEN None ELSE Some(payload)]]
                    /\ clock' = late
                    /\ nextId' = nextId + 1
    /\ UNCHANGED <<tracker, builderVars, codecVars>>

\* Emitter::add completes and track returns
AddDone(c, add_result) ==
    /\ calls[c].pc = "awaiting"
    /\ calls' = [calls EXCEPT ![c].pc = "done",
                              ![c].add_result = Some(add_result),
                              ![c].result =
                                 Some(TrackResult(add_result, Unwrap(calls[c].event_id)))]
    /\ UNCHANGED <<tracker, clock, nextId, builderVars, codecVars>>

\* the caller takes the result of a finished call
Return(c) ==
    /\ calls[c].pc = "done"
    /\ calls' = [calls EXCEPT ![c] = IdleCall]
    /\ UNCHANGED <<tracker, clock, nextId, builderVars, codecVars>>

\* *tracker.subject_mut() = subject: the exclusive borrow rules out a track
\* call in flight, so the assignment is a statement of the caller between
\* its track calls
SetSubject(subject) ==
    /\ \A c \in DOMAIN calls : calls[c].pc = "idle"
    /\ tracker' = [tracker EXCEPT !.subject = subject]
    /\ UNCHANGED <<clock, nextId, calls, builderVars, codecVars>>

\* time passes
Tick ==
    /\ clock < MaxClock
    /\ clock' = clock + 1
    /\ UNCHANGED <<tracker, nextId, calls, builderVars, codecVars>>

BuilderIdle ==
    /\ builder = Payload_builder
    /\ built = None
    /\ wire = None
    /\ bpc = "building"

CodecIdle ==
    /\ ts = None
    /\ tsOptional = FALSE
    /\ encoded = None
    /\ decoded = None
    /\ cpc = "idle"

TrackerInit(slots) ==
    /\ \E subject \in OptSubjects : tracker = Tracker_new(<<"ns">>, <<"app1">>, subject)
    /\ clock \in ClockStart
    /\ nextId = 0
    /\ calls = [c \in slots |-> IdleCall]

Init == TrackerInit({"c1"}) /\ BuilderIdle /\ CodecIdle

Next ==
    \/ \E c \in {d \in DOMAIN calls : calls[d].pc = "idle"} :
          \E late \in {clock, clock + 1} \cap (clock..MaxClock) :
             \E event \in Events, context \in Contexts :
                Track(c, event, context, late)
    \/ \E c \in {d \in DOMAIN calls : calls[d].pc = "awaiting"} :
          \E r \in {Ok(<<>>)} \cup {Err(e) : e \in EmitterErrors} : AddDone(c, r)
    \/ \E c \in DOMAIN calls : Return(c)
    \/ \E subject \in Subjects : SetSubject(subject)
    \/ Tick

Spec == Init /\ [][Next]_vars

-----------------------------------------------------------------------------
(* A second tracker specification: two track calls in flight together, each *)
(* slot used once, over fewer events and contexts.                          *)

ConcEvents ==
    {e \in Events :
        /\ e.kind = "StructuredEvent"
        /\ e.subject \in {None, Some([Subject_default EXCEPT !["user_id"] = Some(<<"user_2">>)])}}

ConcContexts == {None, Some(<<Json1>>), Some(<<Json2, Json1>>)}

ConcInit == TrackerInit({"c1", "c2"}) /\ BuilderIdle /\ CodecIdle

ConcNext ==
    \/ \E c \in {d \in DOMAIN calls : calls[d].pc = "idle"} :
          \E late \in {clock, clock + 1} \cap (clock..MaxClock) :
             \E event \in ConcEvents, context \in ConcContexts :
                Track(c, event, context, late)
    \/ \E c \in {d \in DOMAIN calls : calls[d].pc = "awaiting"} :
          \E r \in {Ok(<<>>)} \cup {Err(e) : e \in EmitterErrors} : AddDone(c, r)
    \/ \E c \in DOMAIN calls : Return(c)
    \/ \E subject \in Subjects : SetSubject(subject)
    \/ Tick

ConcSpec == ConcInit /\ [][ConcNext]_vars

-----------------------------------------------------------------------------
(* The builder on its own: any sequence of setters, then build() or         *)
(* finalise_payload(), then serialization of the Payload.                   *)

FieldValues(f) ==
    CASE f = "p" -> {<<"pc">>}
      [] f = "tv" -> {<<"x">>}
      [] f = "eid" -> {0}
      [] f = "dtm" -> {Unwrap(from_timestamp_millis(17))}
      [] f = "stm" -> {Unwrap(from_timestamp_millis(17))}
      [] f = "ttm" -> {Unwrap(from_timestamp_millis(-3)) + 1}
      [] f = "e" -> Kinds
      [] f = "aid" -> {<<"app1">>}
      [] f = "ue_pr" -> {SelfDescribingEventData_new(Json2)}
      [] f = "co" -> {ContextData_new(<<>>), ContextData_new(<<Json1, Json2>>)}
      [] f = "structured_event" -> {StructuredEvent1}
      [] f = "subject" -> {Subject_default,
                           [Subject_default EXCEPT !["user_id"] = Some(<<"user_1">>)]}

BuilderSet(f, v) ==
    /\ bpc = "building"
    /\ builder' = Set(builder, f, v)
    /\ UNCHANGED <<built, wire, bpc, trackerVars, codecVars>>

BuilderBuild ==
    /\ bpc = "building"
    /\ built' = Some(build(builder))
    /\ bpc' = "built"
    /\ UNCHANGED <<builder, wire, trackerVars, codecVars>>

BuilderFinalise ==
    /\ bpc = "building"
    /\ built' = Some(finalise_payload(builder, clock))
    /\ bpc' = "finalised"
    /\ UNCHANGED <<builder, wire, trackerVars, codecVars>>

BuilderSerialize(preserve_order) ==
    /\ bpc \in {"built", "finalised"}
    /\ Unwrap(built).ok
    /\ wire' = Some(Payload_serialize(Unwrap(Unwrap(built).val), preserve_order))
    /\ bpc' = "serialized"
    /\ UNCHANGED <<builder, built, trackerVars, codecVars>>

BuilderInit ==
    /\ tracker = Tracker_new(<<"ns">>, <<"app1">>, None)
    /\ clock = MaxClock
    /\ nextId = 0
    /\ calls = [c \in {"c1"} |-> IdleCall]
    /\ BuilderIdle
    /\ CodecIdle

BuilderNext ==
    \/ \E f \in Fields : \E v \in FieldValues(f) : BuilderSet(f, v)
    \/ BuilderBuild
    \/ BuilderFinalise
    \/ \E preserve_order \in BOOLEAN : BuilderSerialize(preserve_order)

BuilderSpec == BuilderInit /\ [][BuilderNext]_vars

-----------------------------------------------------------------------------
(* The timestamp codec on its own: a value is chosen, serialized and the    *)
(* serialized form deserialized.                                            *)

DateTimes == (-MaxTicks)..MaxTicks

CodecChoose(value, optional) ==
    /\ cpc = "idle"
    /\ optional \/ IsSome(value)
    /\ ts' = value
    /\ tsOptional' = optional
    /\ cpc' = "chosen"
    /\ UNCHANGED <<encoded, decoded, trackerVars, builderVars>>

CodecSerialize ==
    /\ cpc = "chosen"
    /\ encoded' = Some(IF tsOptional THEN ts_option_serialize(ts)
                       ELSE ts_serialize(Unwrap(ts)))
    /\ cpc' = "encoded"
    /\ UNCHANGED <<ts, tsOptional, decoded, trackerVars, builderVars>>

CodecDeserialize ==
    /\ cpc = "encoded"
    /\ decoded' = Some(IF tsOptional THEN ts_option_deserialize(Unwrap(encoded))
                       ELSE ts_deserialize(Unwrap(encoded)))
    /\ cpc' = "decoded"
    /\ UNCHANGED <<ts, tsOptional, encoded, trackerVars, builderVars>>

CodecNext ==
    \/ \E value \in {None} \cup {Some(dt) : dt \in DateTimes}, optional \in BOOLEAN :
          CodecChoose(value, optional)
    \/ CodecSerialize
    \/ CodecDeserialize

CodecSpec == BuilderInit /\ [][CodecNext]_vars

-----------------------------------------------------------------------------
(* Properties *)

\* the call slots that handed a payload to the emitter, and that payload
HandedCalls == {c \in DOMAIN calls : calls[c].added /= <<>>}
PayloadOf(c) == calls[c].added[1]
EventOf(c) == Unwrap(calls[c].event)

\* the built Payload of the builder run
BuiltPayload == Unwrap(Unwrap(built).val)

\* C1: build() fails, naming an unset required field, whenever one of p, tv,
\* eid, dtm, stm, aid is unset; it succeeds when all six are set, whatever
\* the optional fields are, and the Payload carries exactly the values set.
C1_BuildValidatesRequired ==
    bpc = "built" =>
        LET r == Unwrap(built)
        IN  /\ (\E f \in Required : builder[f] = None) =>
                  /\ ~r.ok
                  /\ Unwrap(r.err).kind = "UninitializedField"
                  /\ \E f \in Required :
                        builder[f] = None /\ Unwrap(r.err).detail = <<f>>
            /\ (\A f \in Required : IsSome(builder[f])) =>
                  /\ r.ok
                  /\ \A f \in Required : Unwrap(r.val)[f] = Unwrap(builder[f])
                  /\ \A f \in Fields \ Required : Unwrap(r.val)[f] = builder[f]

\* build() was called with only the last required field, aid, unset and
\* optional fields set
C1_Witness ==
    /\ bpc = "built"
    /\ ~Unwrap(built).ok
    /\ builder["aid"] = None
    /\ \A f \in Required \ {"aid"} : IsSome(builder[f])
    /\ IsSome(builder["co"]) /\ IsSome(builder["subject"])

\* C2: an absent optional field is omitted from the serialized object and
\* never emitted as null; with only the six required fields set the key set
\* is exactly {p, tv, eid, dtm, stm, aid}.
C2_AbsentOptionalsOmitted ==
    bpc = "serialized" =>
        LET pl == BuiltPayload
            w == Unwrap(wire)
        IN  /\ \A i \in DOMAIN w.v : w.v[i].v.t /= "null"
            /\ \A f \in {"ttm", "e", "ue_pr", "co"} : pl[f] = None => <<f>> \notin Keys(w)
            /\ pl["structured_event"] = None =>
                  Keys(w) \cap {<<"se_ca">>, <<"se_ac">>} = {}
            /\ \A a \in Attrs :
                  (pl["subject"] = None \/ Unwrap(pl["subject"])[a] = None) =>
                      <<a>> \notin Keys(w)
            /\ (\A f \in Fields \ Required : pl[f] = None) =>
                  Keys(w) = {<<f>> : f \in Required}

\* C3: the handed payload carries a subject exactly when the event declares
\* one; each attribute is then the event Subject's value if set, else the
\* Tracker Subject's; and a track step leaves the Tracker's Subject as it was.
C3_SubjectOfPayload ==
    \A c \in HandedCalls :
        LET pl == PayloadOf(c)
            ev == EventOf(c)
        IN  /\ IsSome(pl["subject"]) <=> IsSome(ev.subject)
            /\ IsSome(ev.subject) =>
                  \A a \in Attrs :
                     Unwrap(pl["subject"])[a] =
                        IF IsSome(Unwrap(ev.subject)[a]) THEN Unwrap(ev.subject)[a]
                        ELSE tracker.subject[a]

C4_TrackerSubjectOnAllEvents ==
    \A c \in HandedCalls :
        \A a \in Attrs :
            IsSome(tracker.subject[a]) =>
                /\ IsSome(PayloadOf(c)["subject"])
                /\ Unwrap(PayloadOf(c)["subject"])[a] =
                      IF IsSome(EventOf(c).subject) /\ IsSome(Unwrap(EventOf(c).subject)[a])
                      THEN Unwrap(EventOf(c).subject)[a]
                      ELSE tracker.subject[a]

\* C5: a call generates one event id; when track returns success, the id
\* returned is the eid of the one payload handed to the emitter.
C5_ReturnedIdIsPayloadEid ==
    /\ \A c \in HandedCalls :
          /\ Len(calls[c].added) = 1
          /\ calls[c].event_id = Some(PayloadOf(c)["eid"])
          /\ PayloadOf(c)["eid"] < nextId
    /\ \A c \in DOMAIN calls :
          (calls[c].pc = "done" /\ Unwrap(calls[c].result).ok) =>
              /\ c \in HandedCalls
              /\ Unwrap(calls[c].result).val = <<PayloadOf(c)["eid"]>>

\* a second call returned its own id
C5_Witness ==
    \E c \in DOMAIN calls :
        /\ calls[c].pc = "done"
        /\ Unwrap(calls[c].result).ok
        /\ Unwrap(calls[c].result).val = <<1>>
        /\ PayloadOf(c)["eid"] = 1

\* C6: with a clock that never goes back, the payload a track call hands over
\* has dtm equal to the millisecond captured at the start of the call and
\* stm equal to the time the finalizer stamped, which is not earlier.
C6_TimestampOrder ==
    [][\A c \in DOMAIN calls :
          (calls[c].pc = "idle" /\ calls'[c].added /= <<>>) =>
              LET pl == calls'[c].added[1]
              IN  /\ clock >= 0
                  /\ pl["dtm"] = (clock \div TicksPerMilli) * TicksPerMilli
                  /\ calls'[c].now = Some(clock \div TicksPerMilli)
                  /\ pl["stm"] = clock'
                  /\ pl["stm"] >= pl["dtm"]
                  /\ (pl["stm"] \div TicksPerMilli) >= (pl["dtm"] \div TicksPerMilli)]_vars

\* the stamped stm is a later millisecond than dtm
C6_Witness ==
    \E c \in HandedCalls :
        (PayloadOf(c)["stm"] \div TicksPerMilli) > (PayloadOf(c)["dtm"] \div TicksPerMilli)

\* the parsed content of a serialized co field is {schema, data: [entries]}
\* for the entries of `context`
IsContextsText(w, context) ==
    /\ w.t = "string"
    /\ LET r == ParseJson(w.v)
       IN  /\ r.ok
           /\ r.val.t = "object"
           /\ Len(r.val.v) = 2
           /\ Keys(r.val) = {<<"schema">>, <<"data">>}
           /\ Get(r.val, <<"schema">>) = JsonString(ContextsSchema)
           /\ LET d == Get(r.val, <<"data">>)
              IN  /\ d.t = "array"
                  /\ Len(d.v) = Len(context)
                  /\ \A i \in 1..Len(context) :
                        /\ d.v[i].t = "object"
                        /\ Len(d.v[i].v) = 2
                        /\ Keys(d.v[i]) = {<<"schema">>, <<"data">>}
                        /\ Get(d.v[i], <<"schema">>) = JsonString(context[i].schema)
                        /\ Get(d.v[i], <<"data">>) = context[i].data

\* C7: the handed payload has a co field exactly when the caller supplied a
\* context (an empty one included); its schema is the contexts schema, its
\* data the caller's entries in order, and it serializes as one JSON string
\* whose parsed content is {schema, data: [entries]}.
C7_ContextAttachment ==
    \A c \in HandedCalls :
        LET pl == PayloadOf(c)
            context == calls[c].context
        IN  /\ IsSome(pl["co"]) <=> IsSome(context)
            /\ IsSome(context) =>
                  /\ Unwrap(pl["co"]).schema = ContextsSchema
                  /\ Unwrap(pl["co"]).data = Unwrap(context)
                  /\ \A preserve_order \in BOOLEAN :
                        IsContextsText(
                            Get(Payload_serialize(pl, preserve_order), <<"co">>),
                            Unwrap(context))
            /\ context = None =>
                  <<"co">> \notin Keys(Payload_serialize(pl, TRUE))

\* a context of two different entries was handed over
C7_Witness ==
    \E c \in HandedCalls :
        /\ calls[c].context = Some(<<Json2, Json1>>)
        /\ Unwrap(PayloadOf(c)["co"]).data = <<Json2, Json1>>

\* C8: decoding the encoding of a time of millisecond precision returns it,
\* before the epoch too; the optional codec encodes Some(t) as the mandatory
\* codec encodes t and decodes it to Some(t); None encodes to null and null
\* decodes to None.
C8_TimestampRoundTrip ==
    cpc = "decoded" =>
        LET r == Unwrap(decoded)
            w == Unwrap(encoded)
        IN  /\ ts = None => (w = JsonNull /\ r.ok /\ r.val = <<None>>)
            /\ IsSome(ts) =>
                  /\ w.t = "string"
                  /\ tsOptional => w = ts_serialize(Unwrap(ts))
            /\ (IsSome(ts) /\ Unwrap(ts) % TicksPerMilli = 0) =>
                  /\ r.ok
                  /\ r.val = IF tsOptional THEN <<ts>> ELSE ts

\* a time before the epoch, two digits of milliseconds, through the
\* optional codec
C8_Witness ==
    /\ cpc = "decoded"
    /\ tsOptional
    /\ IsSome(ts)
    /\ Unwrap(ts) = -(TicksPerMilli * 12)
    /\ Unwrap(encoded) = JsonString(<<"-", "1", "2">>)
    /\ Unwrap(decoded).ok

\* C9: with track calls in flight together, the payload of each is made of
\* its own event, context, captured time and id and of the Tracker's
\* configuration; no two calls share an eid.
C9_CallsIsolated ==
    /\ \A c \in HandedCalls :
          LET pl == PayloadOf(c)
              ev == EventOf(c)
          IN  /\ pl["p"] = tracker.config.platform
              /\ pl["tv"] = tracker.config.version
              /\ pl["aid"] = tracker.app_id
              /\ Some(pl["eid"]) = calls[c].event_id
              /\ Some(pl["dtm"] \div TicksPerMilli) = calls[c].now
              /\ pl["dtm"] % TicksPerMilli = 0
              /\ pl["stm"] >= pl["dtm"] /\ pl["stm"] <= clock
              /\ pl["e"] = Some(ev.kind)
              /\ pl["co"] = IF IsSome(calls[c].context)
                            THEN Some([schema |-> ContextsSchema,
                                       data |-> Unwrap(calls[c].context)])
                            ELSE None
              /\ pl["subject"] =
                    IF IsSome(ev.subject)
                    THEN Some([a \in Attrs |->
                                 IF IsSome(Unwrap(ev.subject)[a])
                                 THEN Unwrap(ev.subject)[a]
                                 ELSE tracker.subject[a]])
                    ELSE None
    /\ \A c, d \in HandedCalls : c /= d => PayloadOf(c)["eid"] /= PayloadOf(d)["eid"]

\* two calls await the emitter together, with different contexts and
\* different subjects
C9_Witness ==
    /\ \A c \in DOMAIN calls : calls[c].pc = "awaiting"
    /\ \E c, d \in DOMAIN calls :
          /\ calls[c].context = Some(<<Json1>>)
          /\ calls[d].context = Some(<<Json2, Json1>>)
          /\ EventOf(c).subject = None
          /\ IsSome(EventOf(d).subject)

\* the state part of C10
C10_Reported ==
    \A c \in DOMAIN calls :
        /\ Len(calls[c].added) <= 1
        /\ calls[c].pc = "done" =>
              LET r == Unwrap(calls[c].result)
              IN  /\ calls[c].added = <<>> =>
                        /\ ~r.ok
                        /\ calls[c].add_result = None
                        /\ Unwrap(r.err).kind = "BuilderError"
                  /\ ~EventOf(c).ok => calls[c].added = <<>>
                  /\ calls[c].added /= <<>> =>
                        /\ IsSome(calls[c].add_result)
                        /\ r.ok = Unwrap(calls[c].add_result).ok
                        /\ ~r.ok =>
                              /\ r.err = Unwrap(calls[c].add_result).err
                              /\ r.val = <<>>

\* C10: a track call invokes the emitter's add at most once; when the clock
\* or the event's finalizer fails, track returns that error and add is not
\* invoked; when add fails, track returns the emitter's error unchanged and
\* no id; no step of a track call changes the Tracker's fields.
C10_FailuresReported ==
    /\ []C10_Reported
    /\ [][calls' /= calls => tracker' = tracker]_vars

\* one call failed on the clock (read before the epoch) and returned no id;
\* another call, started once the clock had passed the epoch and so after
\* that failure, handed its payload over and succeeded
C10_Witness ==
    \E c, d \in DOMAIN calls :
        /\ calls[c].pc = "done"
        /\ ~Unwrap(calls[c].result).ok
        /\ calls[c].now = None
        /\ calls[c].added = <<>>
        /\ calls[d].pc = "done"
        /\ Unwrap(calls[d].result).ok
        /\ Len(calls[d].added) = 1

====
